---- MODULE Spec2Model ----
(***************************************************************************)
(* Model of the decode-dbt tutorial platform (src/app-railway.py): the     *)
(* relational key-value storage (MotherDuckStorage), the user and progress *)
(* manager (UserManager), session restoration and the lesson handlers.     *)
(*                                                                         *)
(* Conventions.                                                            *)
(*  - Python strings that the code parses (storage keys, usernames, lesson *)
(*    ids, model names) are sequences of one-character strings, so that    *)
(*    startswith / replace / split / rstrip are computed as Python does.   *)
(*  - Optional values: None is <<>> and a present value x is <<x>>.        *)
(*  - A JSON document is a record; json.dumps / json.loads of the dicts    *)
(*    the code builds is lossless, so a serialized value is the record.    *)
(*  - A timestamp text is <<t, sep>>: datetime.isoformat() writes sep "T", *)
(*    the database's ::VARCHAR cast writes sep " "; a TIMESTAMP column     *)
(*    holds <<t>> (or <<>> for NULL).                                      *)
(*  - sha256(...).hexdigest() is an injective function onto opaque         *)
(*    one-symbol strings.                                                  *)
(***************************************************************************)
EXTENDS Integers, Sequences, FiniteSets, TLC

VARIABLES db, now, call, ret, lastAck, ss, url, page, fs, ev, faults, runs

vars == <<db, now, call, ret, lastAck, ss, url, page, fs, ev, faults, runs>>

(***************************************************************************)
(* Optional values                                                         *)
(***************************************************************************)
None == <<>>

Some(x) == <<x>>

(***************************************************************************)
(* Python string functions on character sequences                          *)
(***************************************************************************)
startswith(s, p) == Len(s) >= Len(p) /\ SubSeq(s, 1, Len(p)) = p

RECURSIVE replace(_, _)
\* s.replace(old, ""): every non-overlapping occurrence of old, left to right
replace(s, old) ==
    IF s = <<>> THEN <<>>
    ELSE IF startswith(s, old) THEN replace(SubSeq(s, Len(old) + 1, Len(s)), old)
    ELSE <<Head(s)>> \o replace(Tail(s), old)

RECURSIVE split(_, _)
\* s.split(c) for a one-character separator c: "" gives [""], "a:" gives ["a", ""]
split(s, c) ==
    IF \A i \in 1..Len(s) : s[i] # c THEN <<s>>
    ELSE LET i == CHOOSE j \in 1..Len(s) : s[j] = c /\ \A k \in 1..(j - 1) : s[k] # c
         IN  <<SubSeq(s, 1, i - 1)>> \o split(SubSeq(s, i + 1, Len(s)), c)

RECURSIVE rstrip(_, _)
rstrip(s, c) ==
    IF s # <<>> /\ s[Len(s)] = c THEN rstrip(SubSeq(s, 1, Len(s) - 1), c) ELSE s

\* key.split(':')[-1]
last_part(s) == LET parts == split(s, ":") IN parts[Len(parts)]

\* hashlib.sha256(x).hexdigest(): injective, one opaque symbol
sha256(x) == <<ToString(x)>>

\* datetime.isoformat(): "YYYY-MM-DDTHH:MM:SS"
isoformat(t) == <<t, "T">>

\* text -> TIMESTAMP column (implicit cast on INSERT); None -> NULL
to_timestamp(s) == IF s = None THEN None ELSE <<s[1]>>

\* column::VARCHAR: "YYYY-MM-DD HH:MM:SS"; NULL -> None
varchar(c) == IF c = None THEN None ELSE <<c[1], " ">>

\* datetime.fromisoformat accepts either separator
fromisoformat(s) == s[1]

\* dict.get(field, default)
dget(d, f, default) == IF f \in DOMAIN d THEN d[f] ELSE default

\* list.append(x) guarded by "x not in list"
append_new(l, x) == IF \E i \in 1..Len(l) : l[i] = x THEN l ELSE Append(l, x)

\* function update that may extend the domain (INSERT ... ON CONFLICT)
Put(f, k, v) == [x \in DOMAIN f \cup {k} |-> IF x = k THEN v ELSE f[x]]

Drop(f, k) == [x \in DOMAIN f \ {k} |-> f[x]]

(***************************************************************************)
(* Key prefixes                                                            *)
(***************************************************************************)
PfxUser == <<"u", "s", "e", "r", ":">>

PfxProgress == <<"p", "r", "o", "g", "r", "e", "s", "s", ":">>

PfxSession == <<"s", "e", "s", "s", "i", "o", "n", ":">>

PfxModel == <<"m", "o", "d", "e", "l", ":">>

(***************************************************************************)
(* MotherDuckStorage: four tables.  db.users maps username to a row,       *)
(* db.learner_progress maps <<username, lesson_id>> to a row,              *)
(* db.user_sessions maps session_token to a row and db.model_edits maps    *)
(* <<username, lesson_id, model_name>> to a row.                           *)
(***************************************************************************)
EmptyDB == [users |-> <<>>, learner_progress |-> <<>>, user_sessions |-> <<>>, model_edits |-> <<>>]

\* the dict a successful storage call returns
Found(key, data) == Some([key |-> key, value |-> data, shared |-> FALSE])

\* MotherDuckStorage.get when the database answers
get(T, key) ==
    IF startswith(key, PfxUser) THEN
        LET username == replace(key, PfxUser) IN
        IF username \in DOMAIN T.users
        THEN LET r == T.users[username] IN
             Found(key, [username |-> username,
                         password_hash |-> r.password_hash,
                         email |-> r.email,
                         schema |-> r.schema_name,
                         created_at |-> varchar(r.created_at)])
        ELSE None
    ELSE IF startswith(key, PfxProgress) THEN
        LET parts == split(replace(key, PfxProgress), ":") IN
        IF Len(parts) = 2 /\ <<parts[1], parts[2]>> \in DOMAIN T.learner_progress
        THEN LET r == T.learner_progress[<<parts[1], parts[2]>>] IN
             Found(key, [lesson_progress |-> r.lesson_progress,
                         completed_steps |-> r.completed_steps,
                         models_executed |-> r.models_executed,
                         queries_run |-> r.queries_run,
                         last_updated |-> varchar(r.last_updated)])
        ELSE None
    ELSE IF startswith(key, PfxSession) THEN
        LET session_token == replace(key, PfxSession) IN
        IF session_token \in DOMAIN T.user_sessions
        THEN LET r == T.user_sessions[session_token] IN
             Found(key, [f \in DOMAIN r.session_data \cup {"created_at"} |->
                            IF f = "created_at" THEN varchar(r.created_at)
                            ELSE r.session_data[f]])
        ELSE None
    ELSE IF startswith(key, PfxModel) THEN
        LET parts == split(replace(key, PfxModel), ":") IN
        IF Len(parts) = 3 /\ <<parts[1], parts[2], parts[3]>> \in DOMAIN T.model_edits
        THEN LET r == T.model_edits[<<parts[1], parts[2], parts[3]>>] IN
             Found(key, [model_sql |-> r.model_sql,
                         last_updated |-> varchar(r.last_updated)])
        ELSE None
    ELSE None

\* the tables after MotherDuckStorage.set when the database answers; a
\* KeyError on a missing field is reported by Raises below
set_tables(T, key, value, t) ==
    IF startswith(key, PfxUser) THEN
        LET username == value.username IN
        IF username \in DOMAIN T.users
        THEN [T EXCEPT !.users[username].password_hash = value.password_hash,
                       !.users[username].email = value.email]
        ELSE [T EXCEPT !.users = Put(@, username,
                                     [password_hash |-> value.password_hash,
                                      email |-> value.email,
                                      schema_name |-> value.schema,
                                      created_at |-> to_timestamp(value.created_at)])]
    ELSE IF startswith(key, PfxProgress) THEN
        LET parts == split(replace(key, PfxProgress), ":") IN
        IF Len(parts) = 2
        THEN [T EXCEPT !.learner_progress = Put(@, <<parts[1], parts[2]>>,
                    [lesson_progress |-> dget(value, "lesson_progress", 0),
                     completed_steps |-> dget(value, "completed_steps", <<>>),
                     models_executed |-> dget(value, "models_executed", <<>>),
                     queries_run |-> dget(value, "queries_run", 0),
                     last_updated |-> to_timestamp(dget(value, "last_updated", isoformat(t)))])]
        ELSE T
    ELSE IF startswith(key, PfxSession) THEN
        LET session_token == replace(key, PfxSession) IN
        [T EXCEPT !.user_sessions = Put(@, session_token,
                    [session_data |-> value,
                     created_at |-> to_timestamp(dget(value, "created_at", isoformat(t)))])]
    ELSE IF startswith(key, PfxModel) THEN
        LET parts == split(replace(key, PfxModel), ":") IN
        IF Len(parts) = 3
        THEN [T EXCEPT !.model_edits = Put(@, <<parts[1], parts[2], parts[3]>>,
                    [model_sql |-> value.model_sql,
                     last_updated |-> to_timestamp(dget(value, "last_updated", isoformat(t)))])]
        ELSE T
    ELSE T

\* set raises inside its try block: a required field of the document is missing
Raises(key, value) ==
    \/ /\ startswith(key, PfxUser)
       /\ ~ ({"username", "password_hash", "email", "schema", "created_at"} \subseteq DOMAIN value)
    \/ /\ ~ startswith(key, PfxUser) /\ ~ startswith(key, PfxProgress)
       /\ ~ startswith(key, PfxSession) /\ startswith(key, PfxModel)
       /\ Len(split(replace(key, PfxModel), ":")) = 3
       /\ "model_sql" \notin DOMAIN value

\* a set that writes the row before the failure of the database I/O shows
set_partial(T, key, value, t, ok) ==
    IF Raises(key, value)
    THEN [db |-> T, ret |-> None]
    ELSE [db |-> set_tables(T, key, value, t),
          ret |-> IF ok THEN Some([key |-> key, value |-> value, shared |-> FALSE])
                  ELSE None]

\* MotherDuckStorage.set: ok is FALSE when the database I/O raises
set(T, key, value, t, ok) ==
    IF ~ ok \/ Raises(key, value)
    THEN [db |-> T, ret |-> None]
    ELSE [db |-> set_tables(T, key, value, t),
          ret |-> Some([key |-> key, value |-> value, shared |-> FALSE])]

\* MotherDuckStorage.get with its except branch
storage_get(T, key, ok) == IF ok THEN get(T, key) ELSE None

\* MotherDuckStorage.delete
delete(T, key, ok) ==
    IF ~ ok THEN [db |-> T, ret |-> None]
    ELSE [db |->
            IF startswith(key, PfxUser) THEN
                [T EXCEPT !.users = Drop(@, replace(key, PfxUser))]
            ELSE IF startswith(key, PfxProgress) THEN
                LET parts == split(replace(key, PfxProgress), ":") IN
                IF Len(parts) = 2
                THEN [T EXCEPT !.learner_progress = Drop(@, <<parts[1], parts[2]>>)]
                ELSE T
            ELSE IF startswith(key, PfxSession) THEN
                [T EXCEPT !.user_sessions = Drop(@, replace(key, PfxSession))]
            ELSE T,
          ret |-> Some([key |-> key, deleted |-> TRUE, shared |-> FALSE])]

\* MotherDuckStorage.list: prefix is None or Some(text); the keys are a set
\* because the SELECT has no ORDER BY
list(T, prefix, ok) ==
    [keys |-> IF ok /\ prefix # None /\ prefix[1] # <<>> /\ startswith(prefix[1], PfxProgress)
              THEN LET username == rstrip(replace(prefix[1], PfxProgress), ":") IN
                   {PfxProgress \o row[1] \o <<":">> \o row[2] :
                        row \in {x \in DOMAIN T.learner_progress : x[1] = username}}
              ELSE {},
     prefix |-> prefix, shared |-> FALSE]

\* the key texts the application builds
KeyUser(u) == PfxUser \o u

KeyProgress(u, l) == PfxProgress \o u \o <<":">> \o l

KeySession(tok) == PfxSession \o tok

KeyModel(u, l, m) == PfxModel \o u \o <<":">> \o l \o <<":">> \o m

(***************************************************************************)
(* Documents the application serializes into the store                     *)
(***************************************************************************)
\* UserManager.hash_password
hash_password(password) == sha256(password)

\* the schema name derived in create_user; the 8-digit truncation of the
\* digest is kept injective
schema_of(username) == <<"learner_", sha256(username)[1]>>

\* user_data built by UserManager.create_user
user_data(username, password, email, t) ==
    [username |-> username,
     password_hash |-> hash_password(password),
     email |-> email,
     created_at |-> isoformat(t),
     schema |-> schema_of(username)]

\* session token and session_data built by UserManager.authenticate
token_of(username, t) == sha256(<<username, isoformat(t)>>)

session_data(username, t) == [username |-> username, created_at |-> isoformat(t)]

\* the zero-valued progress record
default_progress ==
    [lesson_progress |-> 0, completed_steps |-> <<>>, models_executed |-> <<>>,
     queries_run |-> 0, last_updated |-> None]

\* model_data built by save_model_sql
model_data(sql, t) == [model_sql |-> sql, last_updated |-> isoformat(t)]

(***************************************************************************)
(* UserManager.  Every operator takes the tables T and, for each storage   *)
(* call it makes, a flag telling whether the database answers that call.   *)
(***************************************************************************)
\* UserManager.get_user
get_user(T, username, ok) ==
    LET result == storage_get(T, KeyUser(username), ok) IN
    IF result # None THEN Some(result[1].value) ELSE None

\* UserManager.create_user: returns the tables and (success, message)
create_user(T, username, password, email, t, okGet, okSet) ==
    IF get_user(T, username, okGet) # None
    THEN [db |-> T, success |-> FALSE, message |-> "Username already exists"]
    ELSE LET r == set(T, KeyUser(username), user_data(username, password, email, t), t, okSet) IN
         IF r.ret # None
         THEN [db |-> r.db, success |-> TRUE, message |-> "Account created successfully"]
         ELSE [db |-> r.db, success |-> FALSE, message |-> "Failed to create account"]

\* UserManager.authenticate: returns the tables, (success, user or message)
\* and the session token put in the query parameters
authenticate(T, username, password, t, okGet, okSet) ==
    LET user == get_user(T, username, okGet) IN
    IF user = None
    THEN [db |-> T, success |-> FALSE, user |-> None, message |-> "User not found", token |-> None]
    ELSE IF user[1].password_hash = hash_password(password)
    THEN LET session_token == token_of(username, t) IN
         [db |-> set(T, KeySession(session_token), session_data(username, t), t, okSet).db,
          success |-> TRUE, user |-> user, message |-> "", token |-> Some(session_token)]
    ELSE [db |-> T, success |-> FALSE, user |-> None, message |-> "Invalid password", token |-> None]

\* UserManager.save_progress: stamps last_updated and writes the record
save_progress(T, username, lesson_id, progress_data, t, ok) ==
    LET stamped == [f \in DOMAIN progress_data \cup {"last_updated"} |->
                        IF f = "last_updated" THEN isoformat(t) ELSE progress_data[f]]
        r == set(T, KeyProgress(username, lesson_id), stamped, t, ok)
    IN [db |-> r.db, progress |-> stamped, success |-> r.ret # None]

\* UserManager.get_progress
get_progress(T, username, lesson_id, ok) ==
    LET result == storage_get(T, KeyProgress(username, lesson_id), ok) IN
    IF result # None THEN result[1].value ELSE default_progress

\* UserManager.get_all_progress: lesson id -> progress record
get_all_progress(T, username, okList, okGet) ==
    LET keys == list(T, Some(PfxProgress \o username \o <<":">>), okList).keys IN
    [lesson_id \in {last_part(k) : k \in keys} |-> get_progress(T, username, lesson_id, okGet)]

Min(a, b) == IF a < b THEN a ELSE b

\* update_progress: S is the session state; returns the tables, the session
\* state and the value returned (None when it returns early)
update_progress(T, S, increment, step_name, t, okGet, okSet) ==
    IF S.learner_id = None \/ S.learner_id[1] = <<>>
       \/ S.current_lesson = None \/ S.current_lesson[1] = <<>>
    THEN [db |-> T, ss |-> S, ret |-> None]
    ELSE LET username == S.learner_id[1]
             lesson_id == S.current_lesson[1]
             progress == get_progress(T, username, lesson_id, okGet)
             updated == [progress EXCEPT
                           !.lesson_progress = Min(100, progress.lesson_progress + increment),
                           !.completed_steps = IF step_name # None
                                               THEN append_new(@, step_name[1])
                                               ELSE @]
             r == save_progress(T, username, lesson_id, updated, t, okSet)
         IN [db |-> r.db,
             ss |-> IF r.success THEN [S EXCEPT !.progress = Some(r.progress)] ELSE S,
             ret |-> Some(r.success)]

(***************************************************************************)
(* Session state of one browser session (st.session_state), the session    *)
(* token in the URL, and the sandbox directory on disk                     *)
(***************************************************************************)
EmptySession ==
    [authenticated |-> FALSE, user_data |-> None, learner_id |-> None,
     learner_schema |-> None, selected_lesson |-> None, current_lesson |-> None,
     progress |-> None, dbt_dir |-> None, dbt_ran |-> FALSE,
     original_sql |-> None, editor |-> None]

NoCall == [op |-> "none", key |-> <<>>, prefix |-> None, ok |-> TRUE]

(***************************************************************************)
(* SpecStore: the storage API called directly with keys of every           *)
(* convention and the documents the application writes                     *)
(***************************************************************************)
MaxStoreTime == 1

StoreUsers == {<<"a">>, <<"a", ":", "b">>}

StoreLesson == <<"h">>

StoreModel == <<"m">>

StoreInputs(t) ==
    {<<KeyUser(<<"a">>), user_data(<<"a">>, pw, "e@x.io", t)>> : pw \in {"pw1", "pw2"}}
    \cup {<<KeyProgress(u, StoreLesson), d>> : u \in StoreUsers,
            d \in {[default_progress EXCEPT !.lesson_progress = 20,
                                            !.completed_steps = <<(<<"sandbox_initialized">>)>>,
                                            !.last_updated = isoformat(t)],
                   [lesson_progress |-> 25, completed_steps |-> <<>>,
                    models_executed |-> <<>>, queries_run |-> 1,
                    last_updated |-> isoformat(t), quiz_score |-> 3]}}
    \cup {<<KeySession(token_of(<<"a">>, 0)), session_data(<<"a">>, t)>>}
    \cup {<<KeyModel(u, StoreLesson, StoreModel), model_data("select 1", t)>> :
            u \in StoreUsers}

StoreKeys == {in[1] : in \in StoreInputs(0)}

StorePrefixes ==
    {None, Some(PfxUser), Some(PfxProgress), Some(PfxSession),
     Some(PfxProgress \o <<"a", ":">>), Some(PfxProgress \o <<"a">>),
     Some(PfxModel \o <<"a", ":">>)}

InitStore ==
    /\ db = EmptyDB
    /\ now = 0
    /\ call = NoCall
    /\ ret = None
    /\ lastAck = None
    /\ faults = 0
    /\ runs = 0
    /\ ss = EmptySession
    /\ url = None
    /\ page = "none"
    /\ fs = <<>>
    /\ ev = "none"

AppUnchanged == UNCHANGED <<ss, url, page, fs, ev, faults, runs>>

StorageSet(key, value, ok) ==
    LET r == set(db, key, value, now, ok) IN
    /\ db' = r.db
    /\ ret' = r.ret
    /\ call' = [op |-> "set", key |-> key, prefix |-> None, ok |-> ok]
    /\ lastAck' = IF r.ret # None
                  THEN Some([op |-> "set", key |-> key, value |-> Some(value)])
                  ELSE None
    /\ UNCHANGED now
    /\ AppUnchanged

StorageGet(key, ok) ==
    /\ ret' = storage_get(db, key, ok)
    /\ call' = [op |-> "get", key |-> key, prefix |-> None, ok |-> ok]
    /\ UNCHANGED <<db, now, lastAck>>
    /\ AppUnchanged

StorageDelete(key, ok) ==
    LET r == delete(db, key, ok) IN
    /\ db' = r.db
    /\ ret' = r.ret
    /\ call' = [op |-> "delete", key |-> key, prefix |-> None, ok |-> ok]
    /\ lastAck' = IF r.ret # None /\ get(db, key) # None
                  THEN Some([op |-> "delete", key |-> key, value |-> None])
                  ELSE None
    /\ UNCHANGED now
    /\ AppUnchanged

StorageList(prefix, ok) ==
    /\ ret' = Some(list(db, prefix, ok))
    /\ call' = [op |-> "list", key |-> <<>>, prefix |-> prefix, ok |-> ok]
    /\ UNCHANGED <<db, now, lastAck>>
    /\ AppUnchanged

TickStore ==
    /\ now < MaxStoreTime
    /\ now' = now + 1
    /\ UNCHANGED <<db, call, ret, lastAck>>
    /\ AppUnchanged

NextStore ==
    \/ \E in \in StoreInputs(now), ok \in BOOLEAN : StorageSet(in[1], in[2], ok)
    \/ \E key \in StoreKeys, ok \in BOOLEAN : StorageGet(key, ok)
    \/ \E key \in StoreKeys, ok \in BOOLEAN : StorageDelete(key, ok)
    \/ \E prefix \in StorePrefixes, ok \in BOOLEAN : StorageList(prefix, ok)
    \/ TickStore

SpecStore == InitStore /\ [][NextStore]_vars

\* the keys that hold a stored value, written in the key conventions
StoredKeys(T) ==
    {KeyUser(u) : u \in DOMAIN T.users}
    \cup {KeyProgress(x[1], x[2]) : x \in DOMAIN T.learner_progress}
    \cup {KeySession(tok) : tok \in DOMAIN T.user_sessions}
    \cup {KeyModel(x[1], x[2], x[3]) : x \in DOMAIN T.model_edits}

\* equality of two documents field by field, timestamps compared as instants
Instant(x) == IF x = None THEN None ELSE <<fromisoformat(x)>>

SameValue(v, w) ==
    /\ DOMAIN v = DOMAIN w
    /\ \A f \in DOMAIN v :
         IF f \in {"created_at", "last_updated"}
         THEN Instant(v[f]) = Instant(w[f])
         ELSE v[f] = w[f]

C1_RoundTrip ==
    (/\ call.op = "get" /\ call.ok
     /\ lastAck # None /\ lastAck[1].op = "set" /\ lastAck[1].key = call.key)
    => (ret # None /\ SameValue(ret[1].value, lastAck[1].value[1]))

\* C2: after an acked delete(k) of a key that had a stored value, get(k)
\* returns None.
C2_DeleteThenGet ==
    (/\ call.op = "get"
     /\ lastAck # None /\ lastAck[1].op = "delete" /\ lastAck[1].key = call.key)
    => ret = None

\* C3: list(p) returns exactly the stored keys that start with p.
C3_ListExact ==
    (call.op = "list" /\ call.ok /\ call.prefix # None)
    => ret[1].keys = {k \in StoredKeys(db) : startswith(k, call.prefix[1])}

(***************************************************************************)
(* SpecProgress: update_progress called with any increment and step name   *)
(* by a logged-in session that has a lesson selected                       *)
(***************************************************************************)
ProgressFloor == 30

Increments == {-10, 5, 20, 35, 110}

StepNames == {None, Some(<<"sandbox_initialized">>), Some(<<"models_executed">>)}

ProgressUser == <<"a">>

ProgressLesson == <<"h">>

\* a second account, whose username contains the text "progress:"
NewUser == PfxProgress \o <<"a">>

\* the state after NewUser and "a" registered, and one of the two signed in
\* and selected the lesson
InitProgress ==
    \E username \in {ProgressUser, NewUser} :
    LET new == create_user(EmptyDB, NewUser, "secret2", "b@x.io", 0, TRUE, TRUE)
        reg == create_user(new.db, ProgressUser, "secret1", "a@x.io", 0, TRUE, TRUE)
        auth == authenticate(reg.db, username,
                             IF username = NewUser THEN "secret2" ELSE "secret1",
                             0, TRUE, TRUE)
    IN /\ db = auth.db
       /\ now = 0
       /\ ss = [EmptySession EXCEPT !.authenticated = TRUE,
                                    !.user_data = auth.user,
                                    !.learner_id = Some(auth.user[1].username),
                                    !.learner_schema = Some(auth.user[1].schema),
                                    !.selected_lesson = Some(ProgressLesson),
                                    !.current_lesson = Some(ProgressLesson),
                                    !.progress = Some(default_progress)]
       /\ url = auth.token
       /\ page = "app"
       /\ fs = <<>>
       /\ ev = [op |-> "none"]
       /\ call = NoCall
       /\ ret = None
       /\ lastAck = None
       /\ faults = 0
       /\ runs = 0

StoreUnchanged == UNCHANGED <<call, ret, lastAck>>

UpdateProgress(increment, step_name, okGet, okSet) ==
    LET r == update_progress(db, ss, increment, step_name, now, okGet, okSet) IN
    /\ get_progress(db, ss.learner_id[1], ss.current_lesson[1], okGet).lesson_progress
          + increment >= 0 - ProgressFloor
    /\ db' = r.db
    /\ ss' = r.ss
    /\ ev' = [op |-> "update_progress", increment |-> increment, step_name |-> step_name,
              okGet |-> okGet, okSet |-> okSet, success |-> r.ret]
    /\ UNCHANGED <<now, url, page, fs>>
    /\ UNCHANGED faults
    /\ UNCHANGED runs
    /\ StoreUnchanged

\* UserManager.get_progress called for an account and the lesson
GetProgress(username, ok) ==
    /\ ev' = [op |-> "get_progress", username |-> username, ok |-> ok,
              result |-> get_progress(db, username, ProgressLesson, ok)]
    /\ UNCHANGED <<db, now, ss, url, page, fs, faults>>
    /\ UNCHANGED runs
    /\ StoreUnchanged

NextProgress ==
    \/ \E increment \in Increments, step_name \in StepNames, okGet \in BOOLEAN, okSet \in BOOLEAN :
          UpdateProgress(increment, step_name, okGet, okSet)
    \/ \E username \in {ProgressUser, NewUser}, ok \in BOOLEAN : GetProgress(username, ok)

SpecProgress == InitProgress /\ [][NextProgress]_vars

\* C4: whatever the increments passed to update_progress, the persisted
\* lesson_progress of every record stays within 0..100.
C4_ProgressWithinBounds ==
    \A x \in DOMAIN db.learner_progress :
        db.learner_progress[x].lesson_progress \in 0..100

\* the number of positions of seq that hold x
Count(seq, x) == Cardinality({i \in DOMAIN seq : seq[i] = x})

\* C11: after every update_progress call that reports success, the persisted
\* completed_steps holds each step name recorded before and the step name
\* just passed exactly once each.
C11_StepsOnce ==
    [][(ev'.op = "update_progress" /\ ev'.success = Some(TRUE)) =>
        LET x == <<ProgressUser, ProgressLesson>>
            old == IF x \in DOMAIN db.learner_progress
                   THEN db.learner_progress[x].completed_steps ELSE <<>>
            passed == {old[i] : i \in DOMAIN old}
                      \cup (IF ev'.step_name # None THEN {ev'.step_name[1]} ELSE {})
        IN /\ x \in DOMAIN db'.learner_progress
           /\ \A s \in passed : Count(db'.learner_progress[x].completed_steps, s) = 1]_vars

\* C23: an update_progress whose storage read fails is aborted: every
\* persisted progress record keeps its lesson_progress, completed_steps,
\* models_executed and queries_run, and no record is created.
C23_FailedReadAborts ==
    [][(ev'.op = "update_progress" /\ ~ ev'.okGet) =>
        /\ DOMAIN db'.learner_progress = DOMAIN db.learner_progress
        /\ \A x \in DOMAIN db.learner_progress :
             /\ db'.learner_progress[x].lesson_progress = db.learner_progress[x].lesson_progress
             /\ db'.learner_progress[x].completed_steps = db.learner_progress[x].completed_steps
             /\ db'.learner_progress[x].models_executed = db.learner_progress[x].models_executed
             /\ db'.learner_progress[x].queries_run = db.learner_progress[x].queries_run]_vars

\* C25: an update_progress of the session signed in as u changes no progress
\* record of another username, and when it reports success the record it
\* wrote is stored under u.
C25_PerUserIsolation ==
    [][ev'.op = "update_progress" =>
        LET u == ss.learner_id[1] IN
        /\ \A x \in DOMAIN db.learner_progress \cup DOMAIN db'.learner_progress :
             x[1] # u => /\ x \in DOMAIN db.learner_progress
                         /\ x \in DOMAIN db'.learner_progress
                         /\ db'.learner_progress[x] = db.learner_progress[x]
        /\ ev'.success = Some(TRUE) => <<u, ss.current_lesson[1]>> \in DOMAIN db'.learner_progress]_vars

\* C10: get_progress, when the database answers, returns the stored record
\* of (username, lesson) if there is one and the zero-valued default
\* otherwise; so for an account that registered and did nothing yet.
C10_StoredOrDefault ==
    (ev.op = "get_progress" /\ ev.ok) =>
        LET x == <<ev.username, ProgressLesson>> IN
        IF x \in DOMAIN db.learner_progress
        THEN /\ ev.result.lesson_progress = db.learner_progress[x].lesson_progress
             /\ ev.result.completed_steps = db.learner_progress[x].completed_steps
             /\ ev.result.models_executed = db.learner_progress[x].models_executed
             /\ ev.result.queries_run = db.learner_progress[x].queries_run
        ELSE ev.result = default_progress

(***************************************************************************)
(* One run of the page script.  Streamlit runs the script from the top for *)
(* every widget event; st.rerun() starts one more run without an event.    *)
(* io[i] tells whether the database answers the i-th storage call the run  *)
(* can make.  Reads that only feed the display (get_all_progress for the   *)
(* lesson cards, list_tables) change nothing and are left out.             *)
(***************************************************************************)
\* 24 hours, in clock ticks of 12 hours
SessionWindow == 2

\* at most this many storage calls of the page runs of one behaviour fail
MaxFaults == 1

IOs(n) == {io \in [1..n -> BOOLEAN] : Cardinality({i \in 1..n : ~ io[i]}) <= MaxFaults}

AllOk(io) == \A i \in DOMAIN io : io[i]

Failed(io) == Cardinality({i \in DOMAIN io : ~ io[i]})

\* the outcomes of the storage calls of one run: flags of calls the run does
\* not make are left TRUE, and the failures are counted against MaxFaults
Canon(io, used) ==
    /\ \A i \in DOMAIN io : i \notin used => io[i]
    /\ faults + Failed(io) <= MaxFaults
    /\ faults' = faults + Failed(io)

\* the model file of the lesson in the template project, and its model name
ModelFile == <<"m", ".sql">>

ModelName == replace(ModelFile, <<".sql">>)

TemplateSql == "select 1"

SqlTexts == {"select 2"}

\* a check that lets every run through
check_and_restore_session_open(T, S, U, t, okSession, okUser) == [ss |-> S, ret |-> TRUE]

\* check_and_restore_session: U is the session query parameter
check_and_restore_session(T, S, U, t, okSession, okUser) ==
    IF S.authenticated THEN [ss |-> S, ret |-> TRUE]
    ELSE IF U = None \/ U[1] = <<>> THEN [ss |-> S, ret |-> FALSE]
    ELSE LET result == storage_get(T, KeySession(U[1]), okSession) IN
         IF result = None THEN [ss |-> S, ret |-> FALSE]
         ELSE LET sd == result[1].value IN
              IF sd.created_at # None /\ "username" \in DOMAIN sd
                 /\ t - fromisoformat(sd.created_at) < SessionWindow
              THEN LET user == get_user(T, sd.username, okUser) IN
                   IF user # None
                   THEN [ss |-> [S EXCEPT !.authenticated = TRUE,
                                          !.user_data = user,
                                          !.learner_id = Some(user[1].username),
                                          !.learner_schema = Some(user[1].schema)],
                         ret |-> TRUE]
                   ELSE [ss |-> S, ret |-> FALSE]
              ELSE [ss |-> S, ret |-> FALSE]

\* the storage calls check_and_restore_session makes: none, the session read,
\* or the session read and the user read
restore_calls(T, S, U, t, okSession) ==
    IF S.authenticated \/ U = None \/ U[1] = <<>> THEN {}
    ELSE LET result == storage_get(T, KeySession(U[1]), okSession) IN
         IF result # None /\ result[1].value.created_at # None
            /\ "username" \in DOMAIN result[1].value
            /\ t - fromisoformat(result[1].value.created_at) < SessionWindow
         THEN {1, 2} ELSE {1}

\* "if lesson:" block: loads the progress of the selected lesson into the
\* session state and sets current_lesson
render_lesson(T, S, ok) ==
    IF S.selected_lesson = None THEN S
    ELSE [S EXCEPT !.progress = Some(get_progress(T, S.learner_id[1], S.selected_lesson[1], ok)),
                   !.current_lesson = S.selected_lesson]

\* load_model_sql: the stored edit if there is one, else the sandbox file
load_model_sql(T, S, F, ok) ==
    LET stored == IF S.learner_id # None /\ S.learner_id[1] # <<>>
                     /\ S.current_lesson # None /\ S.current_lesson[1] # <<>>
                  THEN storage_get(T, KeyModel(S.learner_id[1], S.current_lesson[1], ModelName), ok)
                  ELSE None
    IN IF stored # None THEN stored[1].value.model_sql
       ELSE IF F # None THEN F[1] ELSE ""

\* top of the tabbed interface: with no lesson selected lesson["model_dir"]
\* raises and the run ends; else original_sql and the editor are initialised
render_tabs(T, S, F, ok) ==
    IF S.dbt_dir = None \/ S.selected_lesson = None THEN S
    ELSE LET orig == IF S.original_sql = None
                     THEN Some(load_model_sql(T, S, F, ok))
                     ELSE S.original_sql
         IN [S EXCEPT !.original_sql = orig,
                      !.editor = IF @ = None THEN orig ELSE @]

\* save_model_sql: writes the sandbox file and persists the edit
save_model_sql(T, S, sql, t, ok) ==
    [fs |-> Some(sql),
     db |-> IF S.learner_id # None /\ S.learner_id[1] # <<>>
               /\ S.current_lesson # None /\ S.current_lesson[1] # <<>>
            THEN set(T, KeyModel(S.learner_id[1], S.current_lesson[1], ModelName),
                     model_data(sql, t), t, ok).db
            ELSE T]

TabsVisible == page = "app" /\ ss.authenticated /\ ss.dbt_dir # None /\ ss.selected_lesson # None

(***************************************************************************)
(* Login page                                                              *)
(***************************************************************************)
\* a run of an authenticated session with no event: the main page
main_page(T, S, F, okMirror, okLoad) == render_tabs(T, render_lesson(T, S, okMirror), F, okLoad)

\* browser (re)load: a new session state, token tok in the URL
PageLoad(tok, io) ==
    LET r == check_and_restore_session(db, EmptySession, tok, now, io[1], io[2]) IN
    /\ Canon(io, restore_calls(db, EmptySession, tok, now, io[1]))
    /\ ss' = r.ss
    /\ url' = tok
    /\ page' = IF r.ret THEN "app" ELSE "login"
    /\ fs' = None
    /\ ev' = [op |-> "load", restored |-> r.ret, io |-> AllOk(io)]
    /\ UNCHANGED <<db, now>>
    /\ UNCHANGED runs
    /\ StoreUnchanged

\* "Create Account" form; the form only accepts non-empty fields, a password
\* of six characters or more and an email with "@" and "."
Register(username, password, email, io) ==
    /\ page = "login"
    /\ LET r == check_and_restore_session(db, ss, url, now, io[1], io[2]) IN
       IF r.ret
       THEN /\ Canon(io, {1, 2})
            /\ ss' = r.ss
            /\ page' = "app"
            /\ ev' = [op |-> "register", restored |-> TRUE, io |-> AllOk(io)]
            /\ UNCHANGED db
       ELSE LET c == create_user(db, username, password, email, now, io[3], io[4]) IN
            /\ Canon(io, restore_calls(db, ss, url, now, io[1]) \cup {3}
                          \cup (IF get_user(db, username, io[3]) = None THEN {4} ELSE {}))
            /\ db' = c.db
            /\ ev' = [op |-> "register", restored |-> FALSE, io |-> AllOk(io),
                      username |-> username, success |-> c.success]
            /\ UNCHANGED <<ss, page>>
    /\ UNCHANGED <<now, url, fs>>
    /\ UNCHANGED runs
    /\ StoreUnchanged

\* "Sign In" form
Login(username, password, io) ==
    /\ page = "login"
    /\ LET r == check_and_restore_session(db, ss, url, now, io[1], io[2]) IN
       IF r.ret
       THEN /\ Canon(io, {1, 2})
            /\ ss' = r.ss
            /\ page' = "app"
            /\ ev' = [op |-> "login", restored |-> TRUE, io |-> AllOk(io)]
            /\ UNCHANGED <<db, url>>
       ELSE LET a == authenticate(db, username, password, now, io[3], io[4]) IN
            /\ Canon(io, restore_calls(db, ss, url, now, io[1]) \cup {3}
                          \cup (IF a.token # None THEN {4} ELSE {}))
            /\ db' = a.db
            /\ url' = IF a.success THEN a.token ELSE url
            /\ ss' = IF a.success
                     THEN [ss EXCEPT !.authenticated = TRUE,
                                     !.user_data = a.user,
                                     !.learner_id = Some(a.user[1].username),
                                     !.learner_schema = Some(a.user[1].schema)]
                     ELSE ss
            /\ page' = IF a.success THEN "app" ELSE "login"
            /\ ev' = [op |-> "login", restored |-> FALSE, io |-> AllOk(io),
                      username |-> username, password |-> password,
                      success |-> a.success, message |-> a.message]
    /\ UNCHANGED <<now, fs>>
    /\ UNCHANGED runs
    /\ StoreUnchanged

\* Logout button: deletes the stored session of the URL token, clears the
\* URL and the session state, and reruns into the login page
Logout(io) ==
    /\ page = "app" /\ ss.authenticated
    /\ Canon(io, IF url # None /\ url[1] # <<>> THEN {1} ELSE {})
    /\ db' = IF url # None /\ url[1] # <<>>
             THEN delete(db, KeySession(url[1]), io[1]).db
             ELSE db
    /\ url' = None
    /\ ss' = EmptySession
    /\ page' = "login"
    /\ fs' = None
    /\ ev' = [op |-> "logout", io |-> AllOk(io)]
    /\ UNCHANGED now
    /\ UNCHANGED runs
    /\ StoreUnchanged

Tick(max) ==
    /\ now < max
    /\ now' = now + 1
    /\ UNCHANGED <<db, ss, url, page, fs, ev>>
    /\ UNCHANGED faults
    /\ UNCHANGED runs
    /\ StoreUnchanged

(***************************************************************************)
(* Main page of an authenticated session.  The script first renders the    *)
(* header and the lesson cards, then runs the "if lesson:" block, then the *)
(* sandbox buttons, then (when dbt_dir is set) the tabs and their buttons. *)
(* The tab buttons are on screen when the previous run rendered the tabs.  *)
(***************************************************************************)
\* the storage calls of the page itself: 1 the progress read of the
\* "if lesson:" block, 2 the model read of the first render of the editor
page_calls(S) ==
    (IF S.selected_lesson # None THEN {1} ELSE {})
    \cup (IF S.dbt_dir # None /\ S.selected_lesson # None /\ S.original_sql = None
          THEN {2} ELSE {})

\* at most this many button presses on the lesson page in one behaviour
MaxRuns == 6

LessonRun == runs < MaxRuns /\ runs' = runs + 1

\* lesson card button: stores the lesson and reruns
SelectLesson(lesson, io) ==
    /\ page = "app" /\ ss.authenticated
    /\ \E S1 \in {[ss EXCEPT !.selected_lesson = Some(lesson)]} :
         /\ Canon(io, page_calls(S1))
         /\ \E S2 \in {render_lesson(db, S1, io[1])} : ss' = render_tabs(db, S2, fs, io[2])
    /\ ev' = [op |-> "select", io |-> AllOk(io)]
    /\ UNCHANGED <<db, now, url, page, fs>>
    /\ LessonRun
    /\ StoreUnchanged

\* a session state in which no sandbox ever counts as active
SandboxActive_never(S) == FALSE

\* "dbt_dir" in st.session_state
SandboxActive(S) == S.dbt_dir # None

\* "Initialize Learning Sandbox" button
InitializeSandbox(io) ==
    /\ page = "app" /\ ss.authenticated
    /\ IF SandboxActive(ss)
       THEN \* already active: only the page is rendered
            /\ Canon(io, page_calls(ss))
            /\ \E S1 \in {render_lesson(db, ss, io[1])} : ss' = render_tabs(db, S1, fs, io[2])
            /\ UNCHANGED <<db, fs>>
       ELSE IF ss.selected_lesson = None
       THEN \* dbt_dir is stored, then lesson['id'] raises and the run ends
            /\ Canon(io, {})
            /\ ss' = [ss EXCEPT !.dbt_dir = Some("dbt_")]
            /\ fs' = Some(TemplateSql)
            /\ UNCHANGED db
       ELSE \E S1 \in {render_lesson(db, ss, io[1])} :
            \E S2 \in {[S1 EXCEPT !.dbt_dir = Some("dbt_")]} :
            \E saved \in {storage_get(db, KeyModel(S2.learner_id[1], S2.selected_lesson[1],
                                                   replace(ModelFile, <<".sql">>)), io[3])} :
            \E F \in {IF S2.learner_id[1] # <<>> /\ saved # None
                      THEN Some(saved[1].value.model_sql)
                      ELSE Some(TemplateSql)} :
            \E u \in {update_progress(db, S2, 20, Some(<<"sandbox_initialized">>), now, io[4], io[5])} :
               /\ Canon(io, {1, 2, 3, 4, 5})
               /\ db' = u.db
               /\ fs' = F
               /\ ss' = render_tabs(u.db, u.ss, F, io[2])
    /\ ev' = [op |-> "initialize", io |-> AllOk(io), active |-> ss.dbt_dir # None]
    /\ UNCHANGED <<now, url, page>>
    /\ LessonRun
    /\ StoreUnchanged

\* a Reset Session that keeps the selected lesson
ResetSession_keep ==
    /\ page = "app" /\ ss.authenticated
    /\ ss' = [EmptySession EXCEPT !.authenticated = ss.authenticated,
                                  !.user_data = ss.user_data,
                                  !.learner_id = ss.learner_id,
                                  !.learner_schema = ss.learner_schema,
                                  !.selected_lesson = ss.selected_lesson]
    /\ fs' = None
    /\ ev' = [op |-> "reset", io |-> TRUE]
    /\ UNCHANGED <<db, now, url, page, faults>>
    /\ LessonRun
    /\ StoreUnchanged

\* "Reset Session" button: keeps the identity, removes the sandbox, clears
\* the rest of the session state and reruns
ResetSession ==
    /\ page = "app" /\ ss.authenticated
    /\ ss' = [EmptySession EXCEPT !.authenticated = ss.authenticated,
                                  !.user_data = ss.user_data,
                                  !.learner_id = ss.learner_id,
                                  !.learner_schema = ss.learner_schema]
    /\ fs' = None
    /\ ev' = [op |-> "reset", io |-> TRUE]
    /\ UNCHANGED <<db, now, url, page, faults>>
    /\ LessonRun
    /\ StoreUnchanged

\* "Save Model" button with the text of the editor
SaveModel(sql, io) ==
    /\ TabsVisible
    /\ Canon(io, page_calls(ss) \cup {3, 4, 5})
    /\ \E S1 \in {render_lesson(db, ss, io[1])} :
       \E S2 \in {render_tabs(db, S1, fs, io[2])} :
       \E w \in {save_model_sql(db, S2, sql, now, io[3])} :
       \E S3 \in {[S2 EXCEPT !.editor = Some(sql)]} :
       \E u \in {update_progress(w.db, S3, 5, Some(<<"model_saved_">> \o ModelFile), now, io[4], io[5])} :
          /\ db' = u.db
          /\ ss' = u.ss
          /\ fs' = w.fs
    /\ ev' = [op |-> "save", io |-> AllOk(io), sql |-> sql]
    /\ UNCHANGED <<now, url, page>>
    /\ LessonRun
    /\ StoreUnchanged

\* "Execute Data Pipeline" button with the model selected; ran tells whether
\* the external tool reported success for it
ExecutePipeline(ran, io) ==
    /\ TabsVisible
    /\ Canon(io, page_calls(ss) \cup {3, 4, 5, 6})
    /\ \E S1 \in {render_lesson(db, ss, io[1])} :
       \E S2 \in {render_tabs(db, S1, fs, io[2])} :
       \E current_progress \in {get_progress(db, S2.learner_id[1], S2.selected_lesson[1], io[3])} :
       \E listed \in {[current_progress EXCEPT
                         !.models_executed = append_new(@, replace(ModelFile, <<".sql">>))]} :
       \E saved \in {save_progress(db, S2.learner_id[1], S2.selected_lesson[1], listed, now, io[4])} :
       \E u \in {update_progress(saved.db, S2, 30, Some(<<"models_executed">>), now, io[5], io[6])} :
          /\ db' = u.db
          /\ ss' = [u.ss EXCEPT !.dbt_ran = TRUE]
    /\ ev' = [op |-> "execute", io |-> AllOk(io), ran |-> ran]
    /\ UNCHANGED <<now, url, page, fs>>
    /\ LessonRun
    /\ StoreUnchanged

\* "Validate Lesson Completion" button; ok is the outcome of validate_output
ValidateLesson(ok, io) ==
    /\ TabsVisible
    /\ Canon(io, page_calls(ss) \cup (IF ok THEN {3, 4} ELSE {}))
    /\ \E S1 \in {render_lesson(db, ss, io[1])} :
       \E S2 \in {render_tabs(db, S1, fs, io[2])} :
       \E u \in {IF ok
                 THEN update_progress(db, S2, 35, Some(<<"lesson_completed">>), now, io[3], io[4])
                 ELSE [db |-> db, ss |-> S2, ret |-> None]} :
          /\ db' = u.db
          /\ ss' = u.ss
    /\ ev' = [op |-> "validate", io |-> AllOk(io), ok |-> ok]
    /\ UNCHANGED <<now, url, page, fs>>
    /\ LessonRun
    /\ StoreUnchanged

MaxQueries == 1

\* "Execute Query" button; ok tells whether the query ran without raising
ExecuteQuery(ok, io) ==
    /\ TabsVisible /\ ss.dbt_ran
    /\ Canon(io, page_calls(ss) \cup (IF ok THEN {3, 4, 5, 6} ELSE {}))
    /\ \E S1 \in {render_lesson(db, ss, io[1])} :
       \E S2 \in {render_tabs(db, S1, fs, io[2])} :
       \E current_progress \in {get_progress(db, S2.learner_id[1], S2.selected_lesson[1], io[3])} :
       \E counted \in {[current_progress EXCEPT !.queries_run = @ + 1]} :
       \E saved \in {save_progress(db, S2.learner_id[1], S2.selected_lesson[1], counted, now, io[4])} :
       \E u \in {IF ok
                 THEN update_progress(saved.db, S2, 10, Some(<<"query_executed">>), now, io[5], io[6])
                 ELSE [db |-> db, ss |-> S2, ret |-> None]} :
          /\ current_progress.queries_run < MaxQueries
          /\ db' = u.db
          /\ ss' = u.ss
    /\ ev' = [op |-> "query", io |-> AllOk(io), ok |-> ok]
    /\ UNCHANGED <<now, url, page, fs>>
    /\ LessonRun
    /\ StoreUnchanged

(***************************************************************************)
(* Spec: registration, sign-in, page loads with a session token, logout    *)
(* and the clock                                                           *)
(***************************************************************************)
MaxTime == 2

MaxSessions == 2

\* a plain username and one that contains the text "user:"
AuthUsers == {<<"a">>, PfxUser \o <<"a">>}

Credentials == {<<"secret1", "a@x.io">>, <<"secret2", "b@x.io">>}

AuthTokens == {None} \cup {Some(token_of(u, t)) : u \in AuthUsers, t \in 0..MaxTime}

Init ==
    /\ db = EmptyDB
    /\ now = 0
    /\ ss = EmptySession
    /\ url = None
    /\ page = "login"
    /\ fs = None
    /\ ev = [op |-> "none"]
    /\ call = NoCall
    /\ ret = None
    /\ lastAck = None
    /\ faults = 0
    /\ runs = 0

Next ==
    \/ \E u \in AuthUsers, c \in Credentials, io \in IOs(4) : Register(u, c[1], c[2], io)
    \/ \E u \in AuthUsers, c \in Credentials, io \in IOs(4) :
          /\ Cardinality(DOMAIN db.user_sessions) < MaxSessions
          /\ Login(u, c[1], io)
    \/ \E tok \in AuthTokens, io \in IOs(2) : PageLoad(tok, io)
    \/ \E io \in IOs(1) : Logout(io)
    \/ Tick(MaxTime)

Spec == Init /\ [][Next]_vars

\* C7: create_user for a username that already has a stored user record
\* returns failure and leaves the stored records unchanged (checked for runs
\* in which the database answers every call).
C7_DuplicateRejected ==
    [][(/\ ev'.op = "register" /\ ~ ev'.restored /\ ev'.io
        /\ ev'.username \in DOMAIN db.users)
       => (~ ev'.success /\ db'.users = db.users)]_vars

\* the stored session mapping of the URL token maps to username u, is younger
\* than 24 hours at time t and u has a user record
ValidToken(T, U, t) ==
    /\ U # None
    /\ U[1] \in DOMAIN T.user_sessions
    /\ T.user_sessions[U[1]].created_at # None
    /\ t - T.user_sessions[U[1]].created_at[1] < SessionWindow
    /\ "username" \in DOMAIN T.user_sessions[U[1]].session_data
    /\ T.user_sessions[U[1]].session_data.username \in DOMAIN T.users

\* C8: whenever authenticate(u, p) returns success the mapping token -> u is
\* stored, and a page load with a stored token younger than 24 hours whose
\* reads are answered restores exactly the mapped user's identity.
C8_SessionPersisted ==
    /\ [](ev.op = "login" /\ ~ ev.restored /\ ev.success
            => /\ url # None
               /\ url[1] \in DOMAIN db.user_sessions
               /\ db.user_sessions[url[1]].session_data.username = ev.username)
    /\ [][(ev'.op = "load" /\ ev'.io /\ ValidToken(db, url', now))
            => LET u == db.user_sessions[url'[1]].session_data.username IN
               /\ ss'.authenticated
               /\ ss'.learner_id = Some(u)
               /\ ss'.learner_schema = Some(db.users[u].schema_name)]_vars

\* C9: a session is authenticated from a URL token only if the token has a
\* stored mapping younger than 24 hours whose username has a user record; in
\* every other case the run leaves the session unauthenticated on the login
\* page (unless it is a successful sign-in).
C9_RestoreOnlyValid ==
    [][/\ (ev'.op \in {"load", "register", "login"} /\ ev'.restored)
            => ValidToken(db, url', now)
       /\ (/\ ev'.op \in {"load", "register", "login"}
           /\ ~ ValidToken(db, url', now)
           /\ ~ (ev'.op = "login" /\ ~ ev'.restored /\ ev'.success))
            => (~ ss'.authenticated /\ page' = "login")]_vars

\* C17: in every signed-in session, whether it was opened by a login or by a
\* session restoration, the schema in the session is the one derived from
\* the session's username ('learner_' followed by the digest of the
\* username), and a successful sign-in of a registered username puts into
\* the session the schema stored at its registration, which is the one
\* derived from that username.
C17_SchemaDerivedFromUsername ==
    [](ss.authenticated => ss.learner_schema = Some(schema_of(ss.learner_id[1])))
    /\ [][(/\ ev'.op = "login" /\ ~ ev'.restored /\ ev'.success
           /\ ev'.username \in DOMAIN db.users)
          => /\ ss'.learner_schema = Some(db.users[ev'.username].schema_name)
             /\ ss'.learner_schema = Some(schema_of(ev'.username))]_vars

\* C24: the session token issued by a successful sign-in is not the token
\* of any session mapping stored by an earlier sign-in.
C24_FreshToken ==
    [][(page = "login" /\ ev'.op = "login" /\ ~ ev'.restored /\ ev'.success)
       => url'[1] \notin DOMAIN db.user_sessions]_vars

\* C27: a Logout leaves no identity in the session state and no stored
\* session mapping for the token the URL carried.
C27_LogoutDeletesSession ==
    [][ev'.op = "logout"
       => /\ ss' = EmptySession
          /\ (url # None /\ url[1] # <<>>) => url[1] \notin DOMAIN db'.user_sessions]_vars

\* C6: a sign-in with a password that is not the one of the existing account
\* named fails, issues no token and leaves every table unchanged.
C6_WrongPasswordRejected ==
    [][(/\ ev'.op = "login" /\ ~ ev'.restored
        /\ ev'.username \in DOMAIN db.users
        /\ db.users[ev'.username].password_hash # hash_password(ev'.password))
       => (~ ev'.success /\ db' = db /\ url' = url)]_vars

(***************************************************************************)
(* SpecLesson: the lesson handlers of one signed-in session                *)
(***************************************************************************)
LessonUsers == {<<"a">>, <<"a", ":", "b">>}

Lessons == {<<"h">>}

\* the state after one of LessonUsers registered and signed in: the main
\* page with no lesson selected
InitLesson ==
    \E username \in LessonUsers :
    LET reg == create_user(EmptyDB, username, "secret1", "a@x.io", 0, TRUE, TRUE)
        auth == authenticate(reg.db, username, "secret1", 0, TRUE, TRUE)
    IN /\ db = auth.db
       /\ now = 0
       /\ ss = [EmptySession EXCEPT !.authenticated = TRUE,
                                    !.user_data = auth.user,
                                    !.learner_id = Some(auth.user[1].username),
                                    !.learner_schema = Some(auth.user[1].schema)]
       /\ url = auth.token
       /\ page = "app"
       /\ fs = None
       /\ ev = [op |-> "none"]
       /\ call = NoCall
       /\ ret = None
       /\ lastAck = None
       /\ faults = 0
       /\ runs = 0

NextLesson ==
    \/ \E l \in Lessons, io \in IOs(2) : SelectLesson(l, io)
    \/ \E io \in IOs(5) : InitializeSandbox(io)
    \/ ResetSession
    \/ \E sql \in SqlTexts, io \in IOs(5) : SaveModel(sql, io)
    \/ \E ran \in BOOLEAN, io \in IOs(6) : ExecutePipeline(ran, io)
    \/ \E ok \in BOOLEAN, io \in IOs(4) : ValidateLesson(ok, io)
    \/ \E ok \in BOOLEAN, io \in IOs(6) : ExecuteQuery(ok, io)

SpecLesson == InitLesson /\ [][NextLesson]_vars

\* C14: pressing Initialize while the session has an active sandbox creates
\* no directory, leaves dbt_dir and the sandbox files as they are and changes
\* no persisted record.
C14_InitializeIdempotent ==
    [][(ev'.op = "initialize" /\ ss.dbt_dir # None)
       => (db' = db /\ fs' = fs /\ ss'.dbt_dir = ss.dbt_dir)]_vars

C14_SecondInitialize ==
    ev.op = "initialize" /\ ev.active /\ ss.selected_lesson # None

\* C15: Reset Session changes no persisted record, keeps the session
\* authenticated with the same user_data, learner_id and schema, removes the
\* sandbox and clears every other entry of the session state.
C15_ResetKeepsIdentity ==
    [][ev'.op = "reset"
       => /\ db' = db
          /\ fs' = None
          /\ ss' = [EmptySession EXCEPT !.authenticated = TRUE,
                                        !.user_data = ss.user_data,
                                        !.learner_id = ss.learner_id,
                                        !.learner_schema = ss.learner_schema]]_vars

C15_ResetAfterActivity ==
    /\ ev.op = "reset" /\ ss.authenticated /\ ss.selected_lesson = None
    /\ DOMAIN db.learner_progress # {}

\* C18: a Save Model leaves the saved text in the stored model edit of
\* (user, lesson, model), and a fresh sandbox provisioned with the lesson
\* selected gets the stored text of the user's edit in its model file.
C18_EditsRestored ==
    [][/\ ev'.op = "save" =>
            LET x == <<ss.learner_id[1], ss.selected_lesson[1], ModelName>> IN
            /\ x \in DOMAIN db'.model_edits
            /\ db'.model_edits[x].model_sql = ev'.sql
       /\ (ev'.op = "initialize" /\ ss.dbt_dir = None /\ ss.selected_lesson # None) =>
            LET x == <<ss.learner_id[1], ss.selected_lesson[1], ModelName>> IN
            x \in DOMAIN db.model_edits => fs' = Some(db.model_edits[x].model_sql)]_vars

\* C19: a pipeline execution whose model run failed adds no model name to
\* the persisted models_executed.
C19_OnlySuccessfulModels ==
    [][(ev'.op = "execute" /\ ~ ev'.ran) =>
        \A x \in DOMAIN db'.learner_progress :
            LET new == db'.learner_progress[x].models_executed
                old == IF x \in DOMAIN db.learner_progress
                       THEN db.learner_progress[x].models_executed ELSE <<>>
            IN {new[i] : i \in DOMAIN new} \subseteq {old[i] : i \in DOMAIN old}]_vars

\* C28: in every session state with an active sandbox (dbt_dir set) a lesson
\* is selected.
C28_SandboxHasLesson ==
    ss.dbt_dir # None => ss.selected_lesson # None

\* C30: a persisted lesson_progress of 100 is only found in a record whose
\* completed_steps contain 'lesson_completed'.
C30_CompletedOnlyAfterValidation ==
    \A x \in DOMAIN db.learner_progress :
        db.learner_progress[x].lesson_progress = 100
        => Count(db.learner_progress[x].completed_steps, <<"lesson_completed">>) > 0

\* C5: over the lesson interactions of one session, the persisted
\* lesson_progress of every (username, lesson) record never decreases from
\* one operation to the next.
C5_ProgressNeverDecreases ==
    [][\A x \in DOMAIN db.learner_progress :
          /\ x \in DOMAIN db'.learner_progress
          /\ db'.learner_progress[x].lesson_progress >= db.learner_progress[x].lesson_progress]_vars

(***************************************************************************)
(* SpecCalls: start-up of the three variants and the calls that run a      *)
(* query against the warehouse.  The outcome of the database session is an *)
(* input: raised is None or Some(stage), the stage that raised; rows is    *)
(* the result of the query otherwise.                                      *)
(***************************************************************************)
MaxCount == 6

Variants == {"railway", "app"}

Stages == {"connect", "use", "set_schema", "execute"}

\* "expected_min" of every lesson of LESSONS, in both variants
expected_min == 2

\* "expected" rowcount of the lesson of the backend
expected_rowcount == 4

LessonIds == [railway |-> {"hello_dbt", "cafe_chain", "energy_smart"},
              app |-> {"cafe_chain", "energy_smart"}]

\* the result a call hands to its caller, or the exception that leaves it
Returned(value) == [propagated |-> FALSE, value |-> value]

Propagated(error) == [propagated |-> TRUE, error |-> error]

\* a variant of validate_output that asks for more than the minimum
validate_output_strict(rows, min, raised) ==
    IF raised # None THEN <<FALSE, [error |-> raised[1]]>>
    ELSE IF rows = <<>> THEN <<FALSE, [error |-> "IndexError"]>>
    ELSE <<dget(rows[1], "models_built", 0) > min, rows[1]>>

\* validate_output (the same text in both variants): to_dict(...)[0] raises
\* on an empty result, inside the try
validate_output(rows, min, raised) ==
    IF raised # None THEN <<FALSE, [error |-> raised[1]]>>
    ELSE IF rows = <<>> THEN <<FALSE, [error |-> "IndexError"]>>
    ELSE <<dget(rows[1], "models_built", 0) >= min, rows[1]>>

\* GET /validate of the backend: no try around the database session
backend_validate(lesson_id, rows, raised) ==
    IF lesson_id # "01_hello_dbt"
    THEN Returned([success |-> FALSE, logs |-> "Lesson not found."])
    ELSE IF raised # None THEN Propagated(raised[1])
    ELSE IF rows = <<>> THEN Propagated("TypeError")
    ELSE Returned([success |-> rows[1].rowcount = expected_rowcount])

\* the try block of the ad-hoc query handlers: the message shown, if any
run_query(raised) ==
    IF raised # None THEN Returned([error |-> raised[1]]) ELSE Returned([error |-> ""])

InitCalls ==
    /\ db = EmptyDB
    /\ now = 0
    /\ call = NoCall
    /\ ret = None
    /\ lastAck = None
    /\ faults = 0
    /\ runs = 0
    /\ ss = EmptySession
    /\ url = None
    /\ page = "none"
    /\ fs = <<>>
    /\ ev = "none"

CallsUnchanged == UNCHANGED <<db, now, lastAck, ss, url, page, fs, ev, faults, runs>>

ValidateOutput(variant, lesson_id, rows, raised) ==
    /\ call' = [op |-> "validate_output", variant |-> variant, lesson_id |-> lesson_id,
                rows |-> rows, raised |-> raised]
    /\ ret' = Some(Returned(validate_output(rows, expected_min, raised)))
    /\ CallsUnchanged

BackendValidate(lesson_id, rows, raised) ==
    /\ call' = [op |-> "backend_validate", lesson_id |-> lesson_id,
                rows |-> rows, raised |-> raised]
    /\ ret' = Some(backend_validate(lesson_id, rows, raised))
    /\ CallsUnchanged

RunQuery(variant, raised) ==
    /\ call' = [op |-> "run_query", variant |-> variant, raised |-> raised]
    /\ ret' = Some(run_query(raised))
    /\ CallsUnchanged

\* the environment variable MOTHERDUCK_TOKEN and the secrets store: the store
\* has no file, a file without the key, the key with an empty text, or a token
EnvStates == {"unset", "empty", "token"}

SecretsStates == {"nofile", "nokey", "empty", "token"}

env_get(env) ==
    IF env = "unset" THEN None ELSE IF env = "empty" THEN Some("") ELSE Some("tok")

\* st.secrets.get for a store that has a file
secrets_get(secrets) ==
    IF secrets = "nokey" THEN None ELSE IF secrets = "empty" THEN Some("") ELSE Some("tok")

\* Python's "not token"
falsy(token) == token = None \/ token = Some("")

Halted(instructions) == [halted |-> TRUE, instructions |-> instructions, token |-> None]

Running(token) == [halted |-> FALSE, instructions |-> FALSE, token |-> token]

\* app-railway.py: st.stop() sits in the except branch of the secrets read
startup_railway(env, secrets) ==
    IF ~ falsy(env_get(env)) THEN Running(env_get(env))
    ELSE IF secrets = "nofile" THEN Halted(TRUE)
    ELSE Running(secrets_get(secrets))

\* decode_dbt/app.py: reads the secrets store only; the read raises when the
\* store has no file and the script ends with the exception
startup_app(env, secrets) ==
    IF secrets = "nofile" THEN Halted(FALSE)
    ELSE IF falsy(secrets_get(secrets)) THEN Halted(TRUE)
    ELSE Running(secrets_get(secrets))

\* backend: the module loads and serves requests; the token is looked at
\* only inside run_dbt_command
startup_backend(env, secrets) == Running(env_get(env))

Startup(variant, env, secrets) ==
    /\ call' = [op |-> "startup", variant |-> variant, env |-> env, secrets |-> secrets]
    /\ ret' = Some(IF variant = "railway" THEN startup_railway(env, secrets)
                   ELSE IF variant = "app" THEN startup_app(env, secrets)
                   ELSE startup_backend(env, secrets))
    /\ CallsUnchanged

\* the query results: no row, or one row with the aggregate
CountRows(column) ==
    {<<>>} \cup {<<[c \in {column} |-> n]>> : n \in 0..MaxCount}

Raisings == {None} \cup {Some(stage) : stage \in Stages}

NextCalls ==
    \/ \E variant \in Variants, rows \in CountRows("models_built"), raised \in Raisings :
         \E lesson_id \in LessonIds[variant] :
            /\ raised # None => rows = <<>>
            /\ ValidateOutput(variant, lesson_id, rows, raised)
    \/ \E lesson_id \in {"01_hello_dbt", "cafe_chain"}, rows \in CountRows("rowcount"),
          raised \in {None, Some("connect"), Some("execute")} :
            /\ raised # None => rows = <<>>
            /\ BackendValidate(lesson_id, rows, raised)
    \/ \E variant \in Variants, raised \in Raisings : RunQuery(variant, raised)
    \/ \E variant \in Variants \cup {"backend"}, env \in EnvStates, secrets \in SecretsStates :
         Startup(variant, env, secrets)

SpecCalls == InitCalls /\ [][NextCalls]_vars

\* C12: validate_output returns success exactly when the aggregate of the
\* validation query reaches expected_min, and a failure below it carries
\* the observed count in the returned record.
C12_ValidateThreshold ==
    (call.op = "validate_output" /\ call.raised = None /\ call.rows # <<>>) =>
        LET result == ret[1].value
            count == call.rows[1].models_built
        IN /\ result[1] = (count >= expected_min)
           /\ result[2].models_built = count

C12_BelowMinimum ==
    /\ call.op = "validate_output" /\ call.raised = None /\ call.rows # <<>>
    /\ call.rows[1].models_built = expected_min - 1
    /\ ret[1].value[1] = FALSE

\* C13: an exception raised while a validation query or an ad-hoc query runs
\* never leaves the call: the caller gets a failure result that carries the
\* error, in validate_output, the query handlers and the backend /validate.
C13_ExceptionsCaught ==
    (call.op \in {"validate_output", "run_query", "backend_validate"} /\ call.raised # None) =>
        IF ret[1].propagated THEN FALSE
        ELSE IF call.op = "validate_output"
        THEN ret[1].value = <<FALSE, [error |-> call.raised[1]]>>
        ELSE IF call.op = "backend_validate"
        THEN ret[1].value.success = FALSE
        ELSE ret[1].value.error = call.raised[1]

\* C16: with no token in the environment and none in the secrets store,
\* start-up halts with the setup instructions, in every variant.
C16_HaltsWithoutToken ==
    (/\ call.op = "startup"
     /\ falsy(env_get(call.env))
     /\ call.secrets \in {"nofile", "nokey", "empty"})
    => (ret[1].halted /\ ret[1].instructions)

(***************************************************************************)
(* SpecEditor: the model editor of a session that signs in after an        *)
(* earlier session of the same user saved an edit of the model             *)
(***************************************************************************)
\* "Reset to Original" button: puts original_sql into the editor, saves it
\* as the model's SQL and reruns
ResetToOriginal(io) ==
    /\ TabsVisible
    /\ Canon(io, page_calls(ss) \cup {3, 4})
    /\ \E S1 \in {render_lesson(db, ss, io[1])} :
       \E S2 \in {render_tabs(db, S1, fs, io[2])} :
       \E S3 \in {[S2 EXCEPT !.editor = S2.original_sql]} :
       \E w \in {save_model_sql(db, S3, S3.original_sql[1], now, io[3])} :
          /\ db' = w.db
          /\ fs' = w.fs
          /\ ss' = render_lesson(w.db, S3, io[4])
    /\ ev' = [op |-> "reset_model", io |-> AllOk(io)]
    /\ UNCHANGED <<now, url, page>>
    /\ LessonRun
    /\ StoreUnchanged

EditorUser == <<"a">>

\* the state after EditorUser registered, signed in, selected the lesson,
\* initialized a sandbox and saved an edit of the model, and then signed in
\* from a new browser session
InitEditor ==
    LET reg == create_user(EmptyDB, EditorUser, "secret1", "a@x.io", 0, TRUE, TRUE)
        auth == authenticate(reg.db, EditorUser, "secret1", 0, TRUE, TRUE)
        signed == [EmptySession EXCEPT !.authenticated = TRUE,
                                       !.user_data = auth.user,
                                       !.learner_id = Some(auth.user[1].username),
                                       !.learner_schema = Some(auth.user[1].schema)]
    IN \E lesson \in Lessons, sql \in SqlTexts :
       \E earlier \in {[signed EXCEPT !.selected_lesson = Some(lesson),
                                      !.current_lesson = Some(lesson)]} :
       \E u1 \in {update_progress(auth.db, earlier, 20, Some(<<"sandbox_initialized">>), 0, TRUE, TRUE)} :
       \E w \in {save_model_sql(u1.db, earlier, sql, 0, TRUE)} :
       \E u2 \in {update_progress(w.db, earlier, 5, Some(<<"model_saved_">> \o ModelFile), 0, TRUE, TRUE)} :
          /\ db = u2.db
          /\ now = 0
          /\ ss = signed
          /\ url = auth.token
          /\ page = "app"
          /\ fs = None
          /\ ev = [op |-> "none"]
          /\ call = NoCall
          /\ ret = None
          /\ lastAck = None
          /\ faults = 0
          /\ runs = 0

NextEditor ==
    \/ \E lesson \in Lessons, io \in IOs(2) : SelectLesson(lesson, io)
    \/ \E io \in IOs(5) : InitializeSandbox(io)
    \/ ResetSession
    \/ \E sql \in SqlTexts, io \in IOs(5) : SaveModel(sql, io)
    \/ \E io \in IOs(4) : ResetToOriginal(io)

SpecEditor == InitEditor /\ [][NextEditor]_vars

\* C29: after Reset to Original the sandbox file of the model and the
\* persisted model edit both hold the template project's SQL for the model.
C29_ResetRestoresTemplate ==
    [][ev'.op = "reset_model" =>
        LET x == <<ss.learner_id[1], ss.selected_lesson[1], ModelName>> IN
        /\ fs' = Some(TemplateSql)
        /\ x \in DOMAIN db'.model_edits
        /\ db'.model_edits[x].model_sql = TemplateSql]_vars

(***************************************************************************)
(* SpecGate: one browser session from the login page on: registration,     *)
(* sign-in, page loads, logout and the lesson page handlers, all within    *)
(* the lifetime of a session token                                         *)
(***************************************************************************)
GateUser == <<"a">>

GateTokens == {None} \cup {Some(token_of(GateUser, t)) : t \in 0..MaxTime}

\* the handlers of the main page that the claim calls lesson operations
LessonOps == {"select", "initialize", "reset", "save", "execute", "validate", "query"}

\* at most this many button presses on the lesson page in one behaviour
GateRuns == 4

NextGate ==
    \/ \E io \in IOs(4) : Register(GateUser, "secret1", "a@x.io", io)
    \/ \E c \in Credentials, io \in IOs(4) :
          /\ Cardinality(DOMAIN db.user_sessions) < MaxSessions
          /\ Login(GateUser, c[1], io)
    \/ \E tok \in GateTokens, io \in IOs(2) : PageLoad(tok, io)
    \/ \E io \in IOs(1) : Logout(io)
    \/ \E l \in Lessons, io \in IOs(2) : runs < GateRuns /\ SelectLesson(l, io)
    \/ \E io \in IOs(5) : runs < GateRuns /\ InitializeSandbox(io)
    \/ runs < GateRuns /\ ResetSession
    \/ \E sql \in SqlTexts, io \in IOs(5) : runs < GateRuns /\ SaveModel(sql, io)
    \/ \E ran \in BOOLEAN, io \in IOs(6) : runs < GateRuns /\ ExecutePipeline(ran, io)
    \/ \E ok \in BOOLEAN, io \in IOs(4) : runs < GateRuns /\ ValidateLesson(ok, io)
    \/ \E ok \in BOOLEAN, io \in IOs(6) : runs < GateRuns /\ ExecuteQuery(ok, io)

SpecGate == Init /\ [][NextGate]_vars

\* C26: a run of an unauthenticated session shows the login page and stops,
\* so the main page is only shown to an authenticated session; and every
\* lesson operation, and every change of a progress or model edit record,
\* happens in a run of an authenticated session.
C26_AuthenticationGate ==
    /\ [](page = "app" => ss.authenticated)
    /\ [][(\/ ev' # ev /\ ev'.op \in LessonOps
           \/ db'.learner_progress # db.learner_progress
           \/ db'.model_edits # db.model_edits)
          => (page = "app" /\ ss.authenticated)]_vars

C26_LoginPageAfterLessonWork ==
    /\ ev.op = "load" /\ ~ ev.restored /\ page = "login" /\ ~ ss.authenticated
    /\ DOMAIN db.learner_progress # {}

(***************************************************************************)
(* SpecConcurrent: several browser sessions served at the same time.  Each *)
(* session's script runs in its own thread and every storage call opens    *)
(* its own connection, so the read and the write of one update_progress or *)
(* one create_user are two steps, between which other sessions' calls may  *)
(* run.  Here call, ret, ss and page are functions of the session: call[s] *)
(* is the call session s is in the middle of, with what it has read.  The  *)
(* database answers every call.                                            *)
(***************************************************************************)
LessonSessions == {1, 2}

FormSessions == {3, 4}

Sessions == LessonSessions \cup FormSessions

\* the credit and step name of the handlers that call update_progress
Credits == {<<20, <<"sandbox_initialized">>>>, <<30, <<"models_executed">>>>}

\* the username the registration forms submit, and each form's other fields
FormUser == <<"b">>

FormFields == (3 :> <<"secret1", "a@x.io">>) @@ (4 :> <<"secret2", "b@x.io">>)

Idle == [op |-> "idle"]

\* update_progress after its read: progress is what get_progress returned
update_progress_write(T, S, progress, increment, step_name, t, okSet) ==
    LET username == S.learner_id[1]
        lesson_id == S.current_lesson[1]
        updated == [progress EXCEPT
                      !.lesson_progress = Min(100, progress.lesson_progress + increment),
                      !.completed_steps = IF step_name # None
                                          THEN append_new(@, step_name[1])
                                          ELSE @]
        r == save_progress(T, username, lesson_id, updated, t, okSet)
    IN [db |-> r.db,
        ss |-> IF r.success THEN [S EXCEPT !.progress = Some(r.progress)] ELSE S,
        ret |-> Some(r.success)]

\* UserManager.create_user after its existence check: existing is what
\* get_user returned
create_user_write(T, existing, username, password, email, t, okSet) ==
    IF existing # None
    THEN [db |-> T, success |-> FALSE, message |-> "Username already exists"]
    ELSE LET r == set(T, KeyUser(username), user_data(username, password, email, t), t, okSet) IN
         IF r.ret # None
         THEN [db |-> r.db, success |-> TRUE, message |-> "Account created successfully"]
         ELSE [db |-> r.db, success |-> FALSE, message |-> "Failed to create account"]

\* the state after ProgressUser registered and signed in from both lesson
\* sessions with the lesson selected; the form sessions show the login page
InitConcurrent ==
    LET reg == create_user(EmptyDB, ProgressUser, "secret1", "a@x.io", 0, TRUE, TRUE)
        user == get_user(reg.db, ProgressUser, TRUE)
        signed == [EmptySession EXCEPT !.authenticated = TRUE,
                                       !.user_data = user,
                                       !.learner_id = Some(user[1].username),
                                       !.learner_schema = Some(user[1].schema),
                                       !.selected_lesson = Some(ProgressLesson),
                                       !.current_lesson = Some(ProgressLesson)]
    IN /\ db = reg.db
       /\ now = 0
       /\ ss = [s \in Sessions |-> IF s \in LessonSessions THEN signed ELSE EmptySession]
       /\ page = [s \in Sessions |-> IF s \in LessonSessions THEN "app" ELSE "login"]
       /\ call = [s \in Sessions |-> Idle]
       /\ ret = [s \in Sessions |-> None]
       /\ url = None
       /\ fs = None
       /\ ev = [op |-> "none"]
       /\ lastAck = None
       /\ faults = 0
       /\ runs = 0

ConcurrentUnchanged == UNCHANGED <<now, url, page, fs, lastAck, faults, runs>>

\* session s enters update_progress and reads the stored progress
UpdateRead(s, increment, step_name) ==
    /\ page[s] = "app" /\ call[s] = Idle
    /\ ss[s].learner_id # None /\ ss[s].current_lesson # None
    /\ call' = [call EXCEPT ![s] =
                  [op |-> "update_progress", increment |-> increment, step_name |-> step_name,
                   progress |-> get_progress(db, ss[s].learner_id[1], ss[s].current_lesson[1], TRUE)]]
    /\ ev' = [op |-> "read", session |-> s]
    /\ UNCHANGED <<db, ss, ret>>
    /\ ConcurrentUnchanged

\* session s writes the progress it computed from what it read
UpdateWrite(s) ==
    /\ call[s].op = "update_progress"
    /\ \E r \in {update_progress_write(db, ss[s], call[s].progress, call[s].increment,
                                        call[s].step_name, now, TRUE)} :
          /\ db' = r.db
          /\ ss' = [ss EXCEPT ![s] = r.ss]
          /\ ret' = [ret EXCEPT ![s] = r.ret]
    /\ call' = [call EXCEPT ![s] = Idle]
    /\ ev' = [op |-> "update_progress", session |-> s]
    /\ ConcurrentUnchanged

\* the registration form of session s is submitted: create_user checks
\* whether the username exists
RegisterCheck(s) ==
    /\ page[s] = "login" /\ call[s] = Idle /\ ret[s] = None
    /\ call' = [call EXCEPT ![s] =
                  [op |-> "create_user", username |-> FormUser,
                   existing |-> get_user(db, FormUser, TRUE)]]
    /\ ev' = [op |-> "check", session |-> s]
    /\ UNCHANGED <<db, ss, ret>>
    /\ ConcurrentUnchanged

\* create_user of session s goes on after its check
RegisterWrite(s) ==
    /\ call[s].op = "create_user"
    /\ \E c \in {create_user_write(db, call[s].existing, call[s].username,
                                    FormFields[s][1], FormFields[s][2], now, TRUE)} :
          /\ db' = c.db
          /\ ret' = [ret EXCEPT ![s] = Some([username |-> call[s].username, success |-> c.success])]
    /\ call' = [call EXCEPT ![s] = Idle]
    /\ ev' = [op |-> "create_user", session |-> s]
    /\ UNCHANGED ss
    /\ ConcurrentUnchanged

NextConcurrent ==
    \/ \E s \in LessonSessions, c \in Credits : UpdateRead(s, c[1], Some(c[2]))
    \/ \E s \in LessonSessions : UpdateWrite(s)
    \/ \E s \in FormSessions : RegisterCheck(s)
    \/ \E s \in FormSessions : RegisterWrite(s)

SpecConcurrent == InitConcurrent /\ [][NextConcurrent]_vars

\* C21: while two sessions of one user interleave update_progress calls on
\* one lesson, the persisted lesson_progress of every record never decreases
\* and never exceeds 100.
C21_ConcurrentProgressMonotone ==
    [][\A x \in DOMAIN db.learner_progress :
          /\ x \in DOMAIN db'.learner_progress
          /\ db'.learner_progress[x].lesson_progress >= db.learner_progress[x].lesson_progress
          /\ db'.learner_progress[x].lesson_progress <= 100]_vars

\* C22: of the registrations submitted for one new username at most one
\* reports success, and the password_hash and email of a stored user never
\* change after the record was created.
C22_UserWrittenOnce ==
    /\ [](\A s, t \in FormSessions :
            (s # t /\ ret[s] # None /\ ret[t] # None /\ ret[s][1].username = ret[t][1].username)
            => ~ (ret[s][1].success /\ ret[t][1].success))
    /\ [][\A u \in DOMAIN db.users :
            /\ u \in DOMAIN db'.users
            /\ db'.users[u].password_hash = db.users[u].password_hash
            /\ db'.users[u].email = db.users[u].email]_vars

====
